---- MODULE Spec2Model ----
(***************************************************************************)
(* Model of the node-local DNS mutating admission webhook.                 *)
(*                                                                         *)
(* The repository holds two revisions of the decision engine               *)
(* (src/unnamed/part_000 and src/unnamed/part_001).  Both are modelled;    *)
(* the state variable `engine' says which revision the running process     *)
(* was built from.                                                         *)
(***************************************************************************)
EXTENDS Integers, Sequences, FiniteSets, TLC

VARIABLES
    engine,     \* revision of the decision engine linked into the process
    config,     \* s.config: the process-wide webhook configuration
    calls,      \* the /inject calls: position, request, written response
    mainPc,     \* position of the main goroutine (main + Server.Start/Stop)
    exitCode,   \* exit code of the process once it has exited, else -1
    cancelled,  \* ctx.Done() is closed (cancel() has been called)
    servePc,    \* position of the ListenAndServeTLS goroutine
    inShutdown, \* http.Server.Shutdown has been called
    errChan,    \* number of errors buffered in Start's errChan (cap 1)
    startErr,   \* what Server.Start returned: "pending", "nil" or "error"
    configLoaded,  \* LoadConfig has returned a configuration
    drainTimedOut, \* a Shutdown has ended on its 30 s deadline
    inj,        \* a working copy under injectDNSConfig: the pod, the spec, the runs
    certs,      \* what validateCertificates found in the certificate files
    probe,      \* the last response written by /health or /ready
    errInWindow,   \* the serve goroutine sent an error before Start returned
    startVia,   \* the case of Start's select that was taken, "none" before
    locals      \* the local variables of each /inject call handled in steps

vars == <<engine, config, calls, mainPc, exitCode, cancelled, servePc,
          inShutdown, errChan, startErr, configLoaded, drainTimedOut, inj,
          certs, probe, errInWindow, startVia, locals>>

-----------------------------------------------------------------------------
(* Bounds of the model *)

MaxCalls == 2

\* injectDNSConfig is applied to one working copy at most MaxRuns times
MaxRuns == 2

CallIds == 1..MaxCalls

-----------------------------------------------------------------------------
(* corev1 / admissionv1 / net/http constants used by the code *)

DNSNone == "None"
DNSClusterFirst == "ClusterFirst"
DNSClusterFirstWithHostNet == "ClusterFirstWithHostNet"

Create == "CREATE"
Update == "UPDATE"
Delete == "DELETE"
Connect == "CONNECT"

PatchTypeJSONPatch == "JSONPatch"

ContentTypeJSON == "application/json"
MethodPost == "POST"

StatusOK == 200
StatusBadRequest == 400
StatusMethodNotAllowed == 405

-----------------------------------------------------------------------------
(* Configuration: config.go *)

DNSOption(name, value) == [name |-> name, value |-> value]

\* The cluster domain read by part_000 as s.config.ClusterDomain.
ClusterDomain == "cluster.local"

DefaultConfig ==
    [NodeLocalDNSAddress |-> "169.254.20.10",
     SearchDomains |-> <<"default.svc.cluster.local", "svc.cluster.local",
                         "cluster.local">>,
     DNSOptions |-> <<DNSOption("ndots", "3"), DNSOption("attempts", "2"),
                      DNSOption("timeout", "1")>>,
     ClusterDNSAddress |-> "10.96.0.10",
     ClusterDomain |-> ClusterDomain]

\* Dotted quads the model draws addresses from; the others are not addresses.
ValidIPs == {"169.254.20.10", "169.254.25.10", "10.96.0.10"}

validateIPAddress(ip) == ip \in ValidIPs

\* The environment: the node-local address as given, SEARCH_DOMAINS after
\* the split on "," and the trim (<<>> when unset), DNS_OPTIONS after
\* parseDNSOptions (set: the variable is non-empty; ok: it parsed).
Environments ==
    [addr : {"", "not-an-ip", "169.254.25.10"},
     domains : {<<>>, <<"">>},
     options : {[set |-> FALSE, ok |-> TRUE, list |-> <<>>],
                [set |-> TRUE, ok |-> TRUE,
                 list |-> <<DNSOption("ndots", "2")>>],
                [set |-> TRUE, ok |-> FALSE, list |-> <<>>]}]

loadFromEnvironment(cfg, env) ==
    IF env.addr = "" \/ ~validateIPAddress(env.addr)
    THEN [err |-> TRUE, config |-> cfg]
    ELSE IF env.options.set /\ ~env.options.ok
    THEN [err |-> TRUE,
          config |-> [cfg EXCEPT !.NodeLocalDNSAddress = env.addr,
                        !.SearchDomains = IF env.domains /= <<>>
                                          THEN env.domains ELSE @]]
    ELSE [err |-> FALSE,
          config |-> [cfg EXCEPT
                        !.NodeLocalDNSAddress = env.addr,
                        !.SearchDomains = IF env.domains /= <<>>
                                          THEN env.domains ELSE @,
                        !.DNSOptions = IF env.options.set
                                       THEN env.options.list ELSE @]]

validateConfig(cfg) ==
    /\ validateIPAddress(cfg.NodeLocalDNSAddress)
    /\ validateIPAddress(cfg.ClusterDNSAddress)
    /\ Len(cfg.SearchDomains) /= 0
    /\ \A i \in 1..Len(cfg.SearchDomains) : cfg.SearchDomains[i] /= ""
    /\ \A i \in 1..Len(cfg.DNSOptions) :
           cfg.DNSOptions[i].name /= "" /\ cfg.DNSOptions[i].value /= ""

LoadConfig(env, clusterDNSIP) ==
    LET l == loadFromEnvironment(DefaultConfig, env)
        c == [l.config EXCEPT !.ClusterDNSAddress = clusterDNSIP]
    IN  IF l.err THEN [err |-> TRUE, config |-> DefaultConfig]
        ELSE IF ~validateConfig(c) THEN [err |-> TRUE, config |-> DefaultConfig]
        ELSE [err |-> FALSE, config |-> c]

\* Cluster IPs the kube-dns service may be discovered with.
ClusterDNSIPs == {"10.96.0.10", ""}

\* The configurations a process can be serving with.
Configs ==
    {LoadConfig(env, ip).config : <<env, ip>> \in
        {p \in Environments \X ClusterDNSIPs : ~LoadConfig(p[1], p[2]).err}}

-----------------------------------------------------------------------------
(* Pods, raw objects and admission requests *)

\* *corev1.PodDNSConfig: a nil pointer, or a config (possibly with empty lists)
NilDNSConfig ==
    [isNil |-> TRUE, nameservers |-> <<>>, searches |-> <<>>, options |-> <<>>]

PodDNSConfig(nameservers, searches, options) ==
    [isNil |-> FALSE, nameservers |-> nameservers, searches |-> searches,
     options |-> options]

\* The fields of corev1.Pod the webhook reads or writes.
ZeroPod ==
    [namespace |-> "", dnsPolicy |-> "", hostNetwork |-> FALSE,
     dnsConfig |-> NilDNSConfig]

\* DNS configs a user may have written into a pod.
UserDNSConfigs ==
    {PodDNSConfig(<<"8.8.8.8">>, <<>>, <<>>), PodDNSConfig(<<>>, <<>>, <<>>)}

\* A JSON pod document: spec.dnsPolicy may be absent, spec.dnsConfig absent
\* or null is NilDNSConfig, metadata.namespace absent is "".
PodDocs ==
    [namespace : {"", "ns"},
     hasDNSPolicy : BOOLEAN,
     dnsPolicy : {"", DNSClusterFirst, DNSNone, DNSClusterFirstWithHostNet},
     hostNetwork : BOOLEAN,
     dnsConfig : {NilDNSConfig} \cup UserDNSConfigs]

ZeroDoc ==
    [namespace |-> "", hasDNSPolicy |-> FALSE, dnsPolicy |-> "",
     hostNetwork |-> FALSE, dnsConfig |-> NilDNSConfig]

\* runtime.RawExtension.Raw: no bytes, bytes that are no JSON pod, a pod document
RawNil == [form |-> "nil", doc |-> ZeroDoc]
RawMalformed == [form |-> "malformed", doc |-> ZeroDoc]
RawPod(doc) == [form |-> "json", doc |-> doc]

RawObjects ==
    {RawNil, RawMalformed} \cup
    {RawPod(d) : d \in {x \in PodDocs : x.hasDNSPolicy = (x.dnsPolicy /= "")}}

OldRawObjects ==
    {RawNil, RawMalformed} \cup
    {RawPod(d) : d \in {x \in PodDocs :
        /\ x.hasDNSPolicy = (x.dnsPolicy /= "")
        /\ x.namespace = "ns"
        /\ ~x.hostNetwork}}

\* json.Unmarshal(raw, &pod)
Unmarshal(raw) ==
    IF raw.form /= "json"
    THEN [err |-> TRUE, pod |-> ZeroPod]
    ELSE [err |-> FALSE,
          pod |-> [namespace |-> raw.doc.namespace,
                   dnsPolicy |-> IF raw.doc.hasDNSPolicy
                                 THEN raw.doc.dnsPolicy ELSE "",
                   hostNetwork |-> raw.doc.hostNetwork,
                   dnsConfig |-> raw.doc.dnsConfig]]

-----------------------------------------------------------------------------
(* The DNS injection policy and the patch codec (part_000, part_001) *)

\* The DNSConfig handed to injectDNSConfig (config.go, type DNSConfig)
DNSConfig(nameservers, searches, options) ==
    [Nameservers |-> nameservers, Searches |-> searches, Options |-> options]

\* Mutant: no skip condition, and the lists are appended to the pod's own.
injectDNSConfigAppend(pod, dnsConfig) ==
    [pod EXCEPT
        !.dnsPolicy = DNSNone,
        !.dnsConfig =
            PodDNSConfig(pod.dnsConfig.nameservers \o dnsConfig.Nameservers,
                         pod.dnsConfig.searches \o dnsConfig.Searches,
                         pod.dnsConfig.options \o dnsConfig.Options)]

\* Mutant: the host-network check is left out.
injectDNSConfigNoHostNet(pod, dnsConfig) ==
    IF ~pod.dnsConfig.isNil THEN pod
    ELSE IF pod.dnsPolicy = DNSNone THEN pod
    ELSE [pod EXCEPT
            !.dnsPolicy = DNSNone,
            !.dnsConfig = PodDNSConfig(dnsConfig.Nameservers,
                                       dnsConfig.Searches, dnsConfig.Options)]

\* injectDNSConfig(pod, dnsConfig): the pod after the call (the code mutates
\* *pod in place and always returns a nil error).
injectDNSConfig(pod, dnsConfig) ==
    IF ~pod.dnsConfig.isNil THEN pod
    ELSE IF pod.dnsPolicy = DNSNone THEN pod
    ELSE IF pod.hostNetwork /\ pod.dnsPolicy /= DNSClusterFirstWithHostNet
    THEN pod
    ELSE [pod EXCEPT
            !.dnsPolicy = DNSNone,
            !.dnsConfig =
                PodDNSConfig(
                    [i \in 1..Len(dnsConfig.Nameservers) |->
                        dnsConfig.Nameservers[i]],
                    [i \in 1..Len(dnsConfig.Searches) |->
                        dnsConfig.Searches[i]],
                    [i \in 1..Len(dnsConfig.Options) |->
                        DNSOption(dnsConfig.Options[i].name,
                                  dnsConfig.Options[i].value)])]

\* JSON values a patch operation carries
JSONString(s) == [type |-> "string", str |-> s, obj |-> NilDNSConfig]
JSONObject(c) == [type |-> "object", str |-> "", obj |-> c]

PatchOp(op, path, value) == [op |-> op, path |-> path, value |-> value]

\* Mutant: the add is emitted before the replace.
generateJSONPatchAddFirst(original, modified) ==
    (IF ~modified.dnsConfig.isNil
     THEN <<PatchOp("add", "/spec/dnsConfig", JSONObject(modified.dnsConfig))>>
     ELSE <<>>) \o
    <<PatchOp("replace", "/spec/dnsPolicy", JSONString(DNSNone))>>

\* generateJSONPatch(original, modified): the operations that json.Marshal
\* then serialises (the marshalling of these values cannot fail).
generateJSONPatch(original, modified) ==
    <<PatchOp("replace", "/spec/dnsPolicy", JSONString(DNSNone))>> \o
    (IF ~modified.dnsConfig.isNil
     THEN <<PatchOp("add", "/spec/dnsConfig", JSONObject(modified.dnsConfig))>>
     ELSE <<>>)

-----------------------------------------------------------------------------
(* The admission decision engine *)

\* admissionv1.AdmissionResponse: Patch and PatchType are nil unless set,
\* Result is nil unless set.
AdmissionResponse(uid, allowed) ==
    [uid |-> uid, allowed |-> allowed,
     hasResult |-> FALSE, code |-> 0, message |-> "",
     hasPatch |-> FALSE, patch |-> <<>>,
     hasPatchType |-> FALSE, patchType |-> ""]

\* Mutant: the denial is built without its Result.
createErrorResponseNoResult(uid, message) == AdmissionResponse(uid, FALSE)

createErrorResponse(uid, message) ==
    [AdmissionResponse(uid, FALSE) EXCEPT
        !.hasResult = TRUE, !.code = 400, !.message = message]

\* response.Patch = patch; response.PatchType = &patchType
withPatch(response, patch) ==
    [response EXCEPT !.hasPatch = TRUE, !.patch = patch,
                     !.hasPatchType = TRUE, !.patchType = PatchTypeJSONPatch]

\* part_000: the search domains and DNSConfig built on Create
createDomains(pod, cfg) ==
    <<pod.namespace \o ".svc." \o cfg.ClusterDomain,
      "svc." \o cfg.ClusterDomain,
      cfg.ClusterDomain>>

\* part_000: the working copy after the Create / Update branch
workingCopy000(req, pod, oldPod, cfg) ==
    IF req.operation = Create
    THEN injectDNSConfig(pod,
            DNSConfig(<<cfg.NodeLocalDNSAddress, cfg.ClusterDNSAddress>>,
                      createDomains(pod, cfg), cfg.DNSOptions))
    ELSE [pod EXCEPT !.dnsConfig = oldPod.dnsConfig,
                     !.dnsPolicy = oldPod.dnsPolicy]

\* Mutant: only the kind is compared, the resource is not.
isPodRequestKindOnly(req) == req.kind = "Pod"

\* The request is about a Pod (kind "Pod", resource "pods")
isPodRequest(req) == req.kind = "Pod" /\ req.resource = "pods"

\* part_000: processAdmissionRequest(req)
processAdmissionRequest000(req, cfg) ==
    IF ~isPodRequest(req)
    THEN AdmissionResponse(req.uid, TRUE)
    ELSE LET u == Unmarshal(req.object) IN
    IF u.err THEN createErrorResponse(req.uid, "Failed to parse pod")
    ELSE IF req.operation = Create
    THEN withPatch(AdmissionResponse(req.uid, TRUE),
            generateJSONPatch(u.pod,
                workingCopy000(req, u.pod, ZeroPod, cfg)))
    ELSE IF req.operation = Update
    THEN LET o == Unmarshal(req.oldObject) IN
         IF o.err THEN createErrorResponse(req.uid, "Failed to parse pod")
         ELSE withPatch(AdmissionResponse(req.uid, TRUE),
                generateJSONPatch(u.pod,
                    workingCopy000(req, u.pod, o.pod, cfg)))
    ELSE AdmissionResponse(req.uid, TRUE)

\* part_001: parsePodFromRequest(req)
parsePodFromRequest(req) ==
    IF req.object.form = "nil" THEN [err |-> TRUE, pod |-> ZeroPod]
    ELSE LET u == Unmarshal(req.object) IN
    IF u.err THEN u
    ELSE [err |-> FALSE,
          pod |-> IF u.pod.namespace = "" /\ req.namespace /= ""
                  THEN [u.pod EXCEPT !.namespace = req.namespace]
                  ELSE u.pod]

\* part_001: createDNSConfig(webhookConfig)
createDNSConfig(cfg) ==
    DNSConfig(
        <<cfg.NodeLocalDNSAddress>> \o
            (IF cfg.ClusterDNSAddress /= "" THEN <<cfg.ClusterDNSAddress>>
             ELSE <<>>),
        cfg.SearchDomains, cfg.DNSOptions)

\* part_001: the working copy (injection on Create and on Update alike)
workingCopy001(pod, cfg) == injectDNSConfig(pod, createDNSConfig(cfg))

\* part_001: processAdmissionRequest(req, startTime)
processAdmissionRequest001(req, cfg) ==
    IF ~isPodRequest(req)
    THEN AdmissionResponse(req.uid, TRUE)
    ELSE IF req.operation /= Create /\ req.operation /= Update
    THEN AdmissionResponse(req.uid, TRUE)
    ELSE LET p == parsePodFromRequest(req) IN
    IF p.err THEN createErrorResponse(req.uid, "Failed to parse pod")
    ELSE withPatch(AdmissionResponse(req.uid, TRUE),
            generateJSONPatch(p.pod, workingCopy001(p.pod, cfg)))

Engines == {"part_000", "part_001"}

processAdmissionRequest(eng, req, cfg) ==
    IF eng = "part_000" THEN processAdmissionRequest000(req, cfg)
    ELSE processAdmissionRequest001(req, cfg)

-----------------------------------------------------------------------------
(* Requests on the wire *)

AdmissionRequest(uid, kind, resource, operation, namespace, object, old) ==
    [uid |-> uid, kind |-> kind, resource |-> resource,
     operation |-> operation, namespace |-> namespace,
     object |-> object, oldObject |-> old]

ZeroRequest == AdmissionRequest("", "", "", "", "", RawNil, RawNil)

APod == RawPod([ZeroDoc EXCEPT !.namespace = "ns", !.hasDNSPolicy = TRUE,
                               !.dnsPolicy = DNSClusterFirst])

\* Well-formed admission requests: the API server sends the prior object
\* with Update (and Delete) only.
AdmissionRequests ==
    {r \in [uid : {"uid-1"},
            kind : {"Pod", "Deployment"},
            resource : {"pods", "deployments"},
            operation : {Create, Update, Delete, Connect},
            namespace : {"ns", "prod"},
            object : RawObjects,
            oldObject : OldRawObjects] :
        /\ r.operation \in {Create, Connect} => r.oldObject = RawNil
        /\ r.operation = Delete => r.oldObject \in {RawNil, APod}}

\* Requests that differ in the request identifier only
UIDRequests ==
    [uid : {"", "uid-2"}, kind : {"Pod"}, resource : {"pods"},
     operation : {Create, Delete}, namespace : {"ns"},
     object : RawObjects, oldObject : {RawNil}]

\* The body of an HTTP request: unreadable, no review envelope, an envelope
\* with a null request, an envelope with a request.
BodyReadErr == [form |-> "readerr", hasRequest |-> FALSE, request |-> ZeroRequest]
BodyUnparseable ==
    [form |-> "unparseable", hasRequest |-> FALSE, request |-> ZeroRequest]
BodyNullRequest ==
    [form |-> "json", hasRequest |-> FALSE, request |-> ZeroRequest]
BodyReview(req) == [form |-> "json", hasRequest |-> TRUE, request |-> req]

HTTPRequest(method, contentType, body) ==
    [method |-> method, contentType |-> contentType, body |-> body]

BrokenBodies == {BodyReadErr, BodyUnparseable, BodyNullRequest}

HTTPRequests ==
    {HTTPRequest(MethodPost, ContentTypeJSON, b) :
        b \in BrokenBodies \cup {BodyReview(r) : r \in AdmissionRequests}}
    \cup
    {HTTPRequest(m, ct, b) :
        m \in {MethodPost, "GET"},
        ct \in {ContentTypeJSON, "text/plain", ""},
        b \in BrokenBodies \cup {BodyReview(r) : r \in UIDRequests}}

-----------------------------------------------------------------------------
(* Webhook transport: server.go *)

\* Mutant: the check of the request identifier is missing.
parseAdmissionReviewNoUID(body) ==
    IF body.form /= "json" THEN [err |-> TRUE, request |-> ZeroRequest]
    ELSE IF ~body.hasRequest THEN [err |-> TRUE, request |-> ZeroRequest]
    ELSE [err |-> FALSE, request |-> body.request]

\* parseAdmissionReview(body)
parseAdmissionReview(body) ==
    IF body.form /= "json" THEN [err |-> TRUE, request |-> ZeroRequest]
    ELSE IF ~body.hasRequest THEN [err |-> TRUE, request |-> ZeroRequest]
    ELSE IF body.request.uid = "" THEN [err |-> TRUE, request |-> ZeroRequest]
    ELSE [err |-> FALSE, request |-> body.request]

ZeroResponse == AdmissionResponse("", FALSE)

\* What a handler has written: the status, and either the error body of
\* writeErrorResponse or the AdmissionReview carrying the response.
\* invoked: processAdmissionRequest was called.
Written(status, form, code, response, invoked) ==
    [status |-> status, form |-> form, code |-> code, response |-> response,
     invoked |-> invoked]

NothingWritten == Written(0, "none", 0, ZeroResponse, FALSE)

writeErrorResponse(statusCode) ==
    Written(statusCode, "error", statusCode, ZeroResponse, FALSE)

\* HandleInject(w, r): what the handler writes for request r
HandleInjectResult(eng, cfg, r) ==
    IF r.method /= MethodPost
    THEN writeErrorResponse(StatusMethodNotAllowed)
    ELSE IF r.contentType /= ContentTypeJSON
    THEN writeErrorResponse(StatusBadRequest)
    ELSE IF r.body.form = "readerr"
    THEN writeErrorResponse(StatusBadRequest)
    ELSE LET a == parseAdmissionReview(r.body) IN
    IF a.err THEN writeErrorResponse(StatusBadRequest)
    ELSE Written(StatusOK, "review", 0,
                 processAdmissionRequest(eng, a.request, cfg), TRUE)

-----------------------------------------------------------------------------
(* State *)

Call(pc, req, out) == [pc |-> pc, req |-> req, out |-> out]

\* No /health or /ready response has been written yet
NoProbe == [path |-> "", status |-> 0, body |-> ""]

\* The locals of a call that is not being handled in steps
NoLocals == [stage |-> "none", pod |-> ZeroPod, podCopy |-> ZeroPod,
             nameservers |-> <<>>, searches |-> <<>>]

IdleCall ==
    Call("idle", HTTPRequest("", "", BodyReadErr), NothingWritten)

Alive == mainPc /= "exited"

\* The listener accepts a connection carrying one of the requests rs.
Accept(c, rs) ==
    /\ Alive
    /\ servePc = "serving"
    /\ calls[c].pc = "idle"
    /\ \E r \in rs :
           calls' = [calls EXCEPT ![c] = Call("running", r, NothingWritten)]
    /\ UNCHANGED <<engine, config, mainPc, exitCode, cancelled, servePc,
                   inShutdown, errChan, startErr, configLoaded,
                   drainTimedOut, inj,
                   certs, probe, errInWindow, startVia, locals>>

\* The handler goroutine of call c runs Server.HandleInject to its end.
HandleInject(c) ==
    /\ Alive
    /\ calls[c].pc = "running"
    /\ calls' = [calls EXCEPT ![c] =
                    Call("done", @.req,
                         HandleInjectResult(engine, config, @.req))]
    /\ UNCHANGED <<engine, config, mainPc, exitCode, cancelled, servePc,
                   inShutdown, errChan, startErr, configLoaded,
                   drainTimedOut, inj,
                   certs, probe, errInWindow, startVia, locals>>

\* Pods a working copy can hold, and the injection specs handed in
Pods == {Unmarshal(o).pod : o \in RawObjects}

InjectionSpecs ==
    {DNSConfig(ns, se, op) :
        ns \in {<<>>, <<"169.254.20.10", "10.96.0.10">>},
        se \in {<<>>, <<"ns.svc.cluster.local", "svc.cluster.local",
                        "cluster.local">>},
        op \in {<<>>, <<DNSOption("ndots", "3"), DNSOption("attempts", "2")>>}}

Injection(orig, pod, first, spec, runs) ==
    [orig |-> orig, pod |-> pod, first |-> first, spec |-> spec, runs |-> runs]

IdleInjection ==
    Injection(ZeroPod, ZeroPod, ZeroPod, DNSConfig(<<>>, <<>>, <<>>), 0)

\* One more injectDNSConfig(pod, spec) on the working copy; first keeps the
\* pod as the first run left it.
Inject ==
    /\ inj.runs < MaxRuns
    /\ LET after == injectDNSConfig(inj.pod, inj.spec) IN
        inj' = [inj EXCEPT !.pod = after,
                           !.first = IF inj.runs = 0 THEN after ELSE @,
                           !.runs = @ + 1]
    /\ UNCHANGED <<engine, config, calls, mainPc, exitCode, cancelled,
                   servePc, inShutdown, errChan, startErr, configLoaded,
                   drainTimedOut, certs, probe, errInWindow, startVia,
                   locals>>

\* A serving process: configuration loaded, Start has returned nil, the
\* listener is open, nothing in flight.
InitServing ==
    /\ engine \in Engines
    /\ config \in Configs
    /\ calls = [c \in CallIds |-> IdleCall]
    /\ mainPc = "waitDone"
    /\ exitCode = -1
    /\ cancelled = FALSE
    /\ servePc = "serving"
    /\ inShutdown = FALSE
    /\ errChan = 0
    /\ startErr = "nil"
    /\ configLoaded = TRUE
    /\ drainTimedOut = FALSE
    /\ inj = IdleInjection
    /\ certs = "valid"
    /\ probe = NoProbe
    /\ errInWindow = FALSE
    /\ startVia = "timer"
    /\ locals = [c \in CallIds |-> NoLocals]

\* One /inject call on a serving process, over every request.
NextInject ==
    \/ Accept(1, HTTPRequests)
    \/ HandleInject(1)

Spec == InitServing /\ [][NextInject]_vars

\* injectDNSConfig run repeatedly on one working copy, over every pod and
\* every injection spec.
InitInjection ==
    /\ engine \in Engines
    /\ config = DefaultConfig
    /\ calls = [c \in CallIds |-> IdleCall]
    /\ mainPc = "waitDone"
    /\ exitCode = -1
    /\ cancelled = FALSE
    /\ servePc = "serving"
    /\ inShutdown = FALSE
    /\ errChan = 0
    /\ startErr = "nil"
    /\ configLoaded = TRUE
    /\ drainTimedOut = FALSE
    /\ inj \in {Injection(p, p, p, d, 0) : p \in Pods, d \in InjectionSpecs}
    /\ certs = "valid"
    /\ probe = NoProbe
    /\ errInWindow = FALSE
    /\ startVia = "timer"
    /\ locals = [c \in CallIds |-> NoLocals]

NextInjection == Inject

InjectSpec == InitInjection /\ [][NextInjection]_vars

-----------------------------------------------------------------------------
(* /inject calls handled concurrently, one statement group at a time *)

\* Pod documents of the concurrent calls
ConcDocs ==
    {[ZeroDoc EXCEPT !.namespace = "ns", !.hasDNSPolicy = TRUE,
                     !.dnsPolicy = DNSClusterFirst],
     [ZeroDoc EXCEPT !.hasDNSPolicy = TRUE, !.dnsPolicy = DNSClusterFirst],
     [ZeroDoc EXCEPT !.namespace = "ns", !.hasDNSPolicy = TRUE,
                     !.dnsPolicy = DNSNone,
                     !.dnsConfig = PodDNSConfig(<<"8.8.8.8">>, <<>>, <<>>)]}

\* Requests of the concurrent calls
ConcRequests ==
    {HTTPRequest(MethodPost, ContentTypeJSON, BodyReview(r)) :
        r \in {a \in AdmissionRequests :
                  /\ isPodRequest(a)
                  /\ a.operation \in {Create, Update}
                  /\ a.namespace = "prod"
                  /\ a.object.form = "json" /\ a.object.doc \in ConcDocs
                  /\ a.operation = Update => a.oldObject = APod}}
    \cup {HTTPRequest("GET", ContentTypeJSON, BodyUnparseable)}

\* What the engine has in hand when it gets to the injection: whether it
\* gets there at all (no early return), and the pod it parsed.
EngineParse(eng, req) ==
    IF eng = "part_000"
    THEN LET u == Unmarshal(req.object) IN
         [applies |-> /\ isPodRequest(req)
                      /\ ~u.err
                      /\ \/ req.operation = Create
                         \/ /\ req.operation = Update
                            /\ ~Unmarshal(req.oldObject).err,
          pod |-> u.pod]
    ELSE LET p == parsePodFromRequest(req) IN
         [applies |-> /\ isPodRequest(req)
                      /\ req.operation \in {Create, Update}
                      /\ ~p.err,
          pod |-> p.pod]

\* The injection spec a call builds from the process-wide configuration:
\* part_000 in its Create branch, part_001 in createDNSConfig.
buildDNSConfig(eng, cfg, pod) ==
    IF eng = "part_000"
    THEN DNSConfig(<<cfg.NodeLocalDNSAddress, cfg.ClusterDNSAddress>>,
                   createDomains(pod, cfg), cfg.DNSOptions)
    ELSE createDNSConfig(cfg)

\* Mutant: the search list a call builds is stored in the shared
\* configuration.
sharedAfterBuildStored(cfg, dnsConfig) ==
    [cfg EXCEPT !.SearchDomains = dnsConfig.Searches]

\* The process-wide configuration after a call built its injection spec:
\* the fields are read, never assigned.
sharedAfterBuild(cfg, dnsConfig) == cfg

\* The injection spec as injectDNSConfig reads it.  Nameservers is a slice
\* made by the call; Options shares its array with s.config.DNSOptions; in
\* part_001 Searches shares its array with s.config.SearchDomains.
sharedDNSConfig(eng, cfg, l) ==
    DNSConfig(l.nameservers,
              IF eng = "part_000" THEN l.searches ELSE cfg.SearchDomains,
              cfg.DNSOptions)

\* The handler up to the injection: the checks of HandleInject, the early
\* returns and the parsing of processAdmissionRequest, then the injection
\* spec and the DeepCopy.
HandleParse(c) ==
    /\ calls[c].pc = "running"
    /\ locals[c].stage = "none"
    /\ LET r == calls[c].req
           direct == HandleInjectResult(engine, config, r)
       IN  IF ~direct.invoked \/ ~EngineParse(engine, r.body.request).applies
           THEN /\ calls' = [calls EXCEPT ![c] = Call("done", r, direct)]
                /\ UNCHANGED <<locals, config>>
           ELSE LET req == r.body.request
                    pod == EngineParse(engine, req).pod
                    builds == engine = "part_001" \/ req.operation = Create
                    built == buildDNSConfig(engine, config, pod)
                IN  /\ locals' = [locals EXCEPT ![c] =
                           [stage |-> "built", pod |-> pod, podCopy |-> pod,
                            nameservers |-> IF builds THEN built.Nameservers
                                            ELSE <<>>,
                            searches |-> IF builds /\ engine = "part_000"
                                         THEN built.Searches ELSE <<>>]]
                    /\ config' = IF builds THEN sharedAfterBuild(config, built)
                                 ELSE config
                    /\ UNCHANGED calls
    /\ UNCHANGED <<engine, mainPc, exitCode, cancelled, servePc, inShutdown,
                   errChan, startErr, configLoaded, drainTimedOut, inj,
                   certs, probe, errInWindow, startVia>>

\* The handler's change of its working copy: injectDNSConfig, or in the
\* Update branch of part_000 the DNS fields of the old pod.
HandleInjectPod(c) ==
    /\ calls[c].pc = "running"
    /\ locals[c].stage = "built"
    /\ LET req == calls[c].req.body.request
           l == locals[c]
       IN  locals' = [locals EXCEPT ![c] =
              [l EXCEPT
                 !.stage = "injected",
                 !.podCopy =
                    IF engine = "part_000" /\ req.operation = Update
                    THEN LET o == Unmarshal(req.oldObject).pod IN
                         [l.podCopy EXCEPT !.dnsConfig = o.dnsConfig,
                                           !.dnsPolicy = o.dnsPolicy]
                    ELSE injectDNSConfig(l.podCopy,
                            sharedDNSConfig(engine, config, l))]]
    /\ UNCHANGED <<engine, config, calls, mainPc, exitCode, cancelled,
                   servePc, inShutdown, errChan, startErr, configLoaded,
                   drainTimedOut, inj, certs, probe, errInWindow, startVia>>

\* The rest of the handler: generateJSONPatch, the patch set on the base
\* response, the review written with status 200.
HandleRespond(c) ==
    /\ calls[c].pc = "running"
    /\ locals[c].stage = "injected"
    /\ LET r == calls[c].req
           l == locals[c]
       IN  calls' = [calls EXCEPT ![c] =
              Call("done", r,
                   Written(StatusOK, "review", 0,
                           withPatch(AdmissionResponse(r.body.request.uid, TRUE),
                                     generateJSONPatch(l.pod, l.podCopy)),
                           TRUE))]
    /\ locals' = [locals EXCEPT ![c].stage = "responded"]
    /\ UNCHANGED <<engine, config, mainPc, exitCode, cancelled, servePc,
                   inShutdown, errChan, startErr, configLoaded,
                   drainTimedOut, inj, certs, probe, errInWindow, startVia>>

NextConc ==
    \/ \E c \in CallIds : Accept(c, ConcRequests)
    \/ \E c \in CallIds : HandleParse(c)
    \/ \E c \in CallIds : HandleInjectPod(c)
    \/ \E c \in CallIds : HandleRespond(c)

\* Calls on a serving process, interleaved in every way.
ConcSpec == InitServing /\ [][NextConc]_vars

-----------------------------------------------------------------------------
(* Process lifecycle: main.go, Server.Start, Server.Stop *)

\* Requests the calls of a whole process run carry
LifeRequests ==
    {HTTPRequest(MethodPost, ContentTypeJSON,
        BodyReview(AdmissionRequest("uid-1", "Pod", "pods", Create, "ns",
                                    APod, RawNil))),
     HTTPRequest("GET", ContentTypeJSON, BodyUnparseable)}

Running == {c \in CallIds : calls[c].pc = "running"}

\* The process ends: every goroutine ends with it, calls in flight are cut.
Exit(code) ==
    /\ mainPc' = "exited"
    /\ exitCode' = code
    /\ servePc' = IF servePc = "none" THEN "none" ELSE "returned"
    /\ calls' = [c \in CallIds |->
                    IF calls[c].pc = "running"
                    THEN [calls[c] EXCEPT !.pc = "abandoned"]
                    ELSE calls[c]]

\* The signal goroutine: a signal arrives and cancel() closes ctx.Done().
Signal ==
    /\ Alive
    /\ ~cancelled
    /\ cancelled' = TRUE
    /\ UNCHANGED <<engine, config, calls, mainPc, exitCode, servePc,
                   inShutdown, errChan, startErr, configLoaded,
                   drainTimedOut, inj,
                   certs, probe, errInWindow, startVia, locals>>

\* main: in-cluster config, client, Get of the kube-dns service (with ctx).
\* Any of them may fail; the Get fails once ctx is cancelled.
Discover ==
    /\ mainPc = "discover"
    /\ \/ /\ ~cancelled
          /\ mainPc' = "loadConfig"
          /\ UNCHANGED <<exitCode, servePc, calls>>
       \/ Exit(1)
    /\ UNCHANGED <<engine, config, cancelled, inShutdown, errChan, startErr,
                   configLoaded, drainTimedOut, inj,
                   certs, probe, errInWindow, startVia, locals>>

\* main: LoadConfig(clusterDNSIP), then NewServer (which cannot fail).
LoadConfigStep ==
    /\ mainPc = "loadConfig"
    /\ \E env \in Environments, ip \in ClusterDNSIPs :
          LET l == LoadConfig(env, ip) IN
          IF l.err
          THEN /\ Exit(1)
               /\ UNCHANGED <<config, configLoaded>>
          ELSE /\ config' = l.config
               /\ configLoaded' = TRUE
               /\ mainPc' = "validate"
               /\ UNCHANGED <<exitCode, servePc, calls>>
    /\ UNCHANGED <<engine, cancelled, inShutdown, errChan, startErr,
                   drainTimedOut, inj,
                   certs, probe, errInWindow, startVia, locals>>

\* What tls.LoadX509KeyPair finds in the certificate and key files: a pair
\* with a certificate chain, no loadable pair, or a pair with no certificate
CertFiles == {"valid", "unloadable", "empty"}

\* Mutant: the pair is loaded but its certificate chain is not looked at.
validateCertificatesLoadOnly(files) == files = "unloadable"

\* validateCertificates: TRUE when it returns an error
validateCertificates(files) ==
    IF files = "unloadable" THEN TRUE
    ELSE IF files = "empty" THEN TRUE
    ELSE FALSE

\* Start: validateCertificates; a failure is returned and main exits 1.
StartValidate ==
    /\ mainPc = "validate"
    /\ \E files \in CertFiles :
          /\ certs' = files
          /\ IF validateCertificates(files)
             THEN /\ startErr' = "error"
                  /\ Exit(1)
             ELSE /\ mainPc' = "spawn"
                  /\ UNCHANGED <<exitCode, servePc, calls, startErr>>
    /\ UNCHANGED <<engine, config, cancelled, inShutdown, errChan,
                   configLoaded, drainTimedOut, inj,
                   probe, errInWindow, startVia, locals>>

\* Start: go func() { ListenAndServeTLS ... }()
StartSpawn ==
    /\ mainPc = "spawn"
    /\ mainPc' = "select"
    /\ servePc' = "spawned"
    /\ UNCHANGED <<engine, config, calls, exitCode, cancelled, inShutdown,
                   errChan, startErr, configLoaded, drainTimedOut, inj,
                   certs, probe, errInWindow, startVia, locals>>

\* The serve goroutine: ListenAndServeTLS up to the bound listener.  It
\* returns ErrServerClosed (not sent on errChan) once Shutdown was called;
\* a bind or certificate error is sent on errChan.
ServeListen ==
    /\ Alive
    /\ servePc = "spawned"
    /\ IF inShutdown
       THEN servePc' = "returned" /\ UNCHANGED <<errChan, errInWindow>>
       ELSE \/ servePc' = "bound" /\ UNCHANGED <<errChan, errInWindow>>
            \/ /\ servePc' = "returned"
               /\ errChan' = 1
               /\ errInWindow' = (errInWindow \/ startErr = "pending")
    /\ UNCHANGED <<engine, config, calls, mainPc, exitCode, cancelled,
                   inShutdown, startErr, configLoaded, drainTimedOut, inj,
                   certs, probe, startVia, locals>>

\* The serve goroutine: Serve registers the listener unless the server is
\* shutting down, then accepts connections.
ServeAccepting ==
    /\ Alive
    /\ servePc = "bound"
    /\ servePc' = IF inShutdown THEN "returned" ELSE "serving"
    /\ UNCHANGED <<engine, config, calls, mainPc, exitCode, cancelled,
                   inShutdown, errChan, startErr, configLoaded,
                   drainTimedOut, inj,
                   certs, probe, errInWindow, startVia, locals>>

\* http.Server.Shutdown begins: inShutdown is set and the listeners are
\* closed, which makes a serving Serve return ErrServerClosed.
BeginShutdown ==
    /\ inShutdown' = TRUE
    /\ servePc' = IF servePc = "serving" THEN "returned" ELSE servePc

\* Stop: Shutdown(shutdownCtx) returns nil once no connection is active
StopDrained == Running = {}

\* Mutant: Shutdown is called with no deadline.
StopDeadlineNever == FALSE

\* Stop: the 30 s deadline of shutdownCtx passes with calls still in flight
\* and Shutdown returns the deadline error.
StopDeadline == Running /= {}

\* Start's select, case <-ctx.Done(): return s.Stop(context.Background())
StartSelectDone ==
    /\ mainPc = "select"
    /\ cancelled
    /\ mainPc' = "startStop"
    /\ startVia' = "done"
    /\ BeginShutdown
    /\ UNCHANGED <<engine, config, calls, exitCode, cancelled, errChan,
                   startErr, configLoaded, drainTimedOut, inj,
                   certs, probe, errInWindow, locals>>

\* Start's select, case err := <-errChan: Start returns it, main exits 1.
StartSelectErr ==
    /\ mainPc = "select"
    /\ errChan = 1
    /\ errChan' = 0
    /\ startErr' = "error"
    /\ startVia' = "err"
    /\ Exit(1)
    /\ UNCHANGED <<engine, config, cancelled, inShutdown, configLoaded,
                   drainTimedOut, inj,
                   certs, probe, errInWindow, locals>>

\* Start's select, case <-time.After(2 * time.Second): Start returns nil,
\* main logs "started" and waits on ctx.Done().  The timer is created when
\* the select is entered, so its case is taken only when neither of the
\* other two channels became ready before it fired.
StartSelectTimer ==
    /\ mainPc = "select"
    /\ ~cancelled
    /\ errChan = 0
    /\ startErr' = "nil"
    /\ startVia' = "timer"
    /\ mainPc' = "waitDone"
    /\ UNCHANGED <<engine, config, calls, exitCode, cancelled, servePc,
                   inShutdown, errChan, configLoaded, drainTimedOut, inj,
                   certs, probe, errInWindow, locals>>

\* The Stop called from Start returns: nil once no call is in flight (main
\* goes on to wait on ctx.Done()), or the deadline error after 30 s with
\* calls still in flight (Start returns it, main exits 1).
StartStopDrained ==
    /\ mainPc = "startStop"
    /\ StopDrained
    /\ startErr' = "nil"
    /\ mainPc' = "waitDone"
    /\ UNCHANGED <<engine, config, calls, exitCode, cancelled, servePc,
                   inShutdown, errChan, configLoaded, drainTimedOut, inj,
                   certs, probe, errInWindow, startVia, locals>>

StartStopTimeout ==
    /\ mainPc = "startStop"
    /\ StopDeadline
    /\ startErr' = "error"
    /\ drainTimedOut' = TRUE
    /\ Exit(1)
    /\ UNCHANGED <<engine, config, cancelled, inShutdown, errChan,
                   configLoaded, inj,
                   certs, probe, errInWindow, startVia, locals>>

\* main: <-ctx.Done() returns, server.Stop(context.Background()) begins.
MainStop ==
    /\ mainPc = "waitDone"
    /\ cancelled
    /\ mainPc' = "stop"
    /\ BeginShutdown
    /\ UNCHANGED <<engine, config, calls, exitCode, cancelled, errChan,
                   startErr, configLoaded, drainTimedOut, inj,
                   certs, probe, errInWindow, startVia, locals>>

\* main's Stop returns nil once no call is in flight; main returns.
MainStopDrained ==
    /\ mainPc = "stop"
    /\ StopDrained
    /\ Exit(0)
    /\ UNCHANGED <<engine, config, cancelled, inShutdown, errChan, startErr,
                   configLoaded, drainTimedOut, inj,
                   certs, probe, errInWindow, startVia, locals>>

\* main's Stop returns the deadline error after 30 s with calls still in
\* flight; main logs it and returns.
MainStopTimeout ==
    /\ mainPc = "stop"
    /\ StopDeadline
    /\ drainTimedOut' = TRUE
    /\ Exit(0)
    /\ UNCHANGED <<engine, config, cancelled, inShutdown, errChan, startErr,
                   configLoaded, inj,
                   certs, probe, errInWindow, startVia, locals>>

\* The paths of the two probes
HealthPath == "/health"
ReadyPath == "/ready"

\* Mutant: probes are answered whatever the listener does.
ListeningAlways == TRUE

\* The listener accepts connections
Listening == servePc = "serving"

\* handleHealth: what it writes, whatever the request
handleHealth == [path |-> HealthPath, status |-> StatusOK, body |-> "healthy"]

\* handleReady: what it writes, whatever the request
handleReady == [path |-> ReadyPath, status |-> StatusOK, body |-> "ready"]

\* A GET /health is accepted and answered.
Health ==
    /\ Alive
    /\ Listening
    /\ probe' = handleHealth
    /\ UNCHANGED <<engine, config, calls, mainPc, exitCode, cancelled,
                   servePc, inShutdown, errChan, startErr, configLoaded,
                   drainTimedOut, inj, certs, errInWindow, startVia, locals>>

\* A GET /ready is accepted and answered.
Ready ==
    /\ Alive
    /\ Listening
    /\ probe' = handleReady
    /\ UNCHANGED <<engine, config, calls, mainPc, exitCode, cancelled,
                   servePc, inShutdown, errChan, startErr, configLoaded,
                   drainTimedOut, inj, certs, errInWindow, startVia, locals>>

\* The steps of the main goroutine
MainNext ==
    \/ Discover
    \/ LoadConfigStep
    \/ StartValidate
    \/ StartSpawn
    \/ StartSelectDone
    \/ StartSelectErr
    \/ StartSelectTimer
    \/ StartStopDrained
    \/ StartStopTimeout
    \/ MainStop
    \/ MainStopDrained
    \/ MainStopTimeout

\* The steps of the serve goroutine
ServeNext == ServeListen \/ ServeAccepting

\* The process as started: main at its first call, nothing loaded.
InitProcess ==
    /\ engine \in Engines
    /\ config = DefaultConfig
    /\ calls = [c \in CallIds |-> IdleCall]
    /\ mainPc = "discover"
    /\ exitCode = -1
    /\ cancelled = FALSE
    /\ servePc = "none"
    /\ inShutdown = FALSE
    /\ errChan = 0
    /\ startErr = "pending"
    /\ configLoaded = FALSE
    /\ drainTimedOut = FALSE
    /\ inj = IdleInjection
    /\ certs = "unchecked"
    /\ probe = NoProbe
    /\ errInWindow = FALSE
    /\ startVia = "none"
    /\ locals = [c \in CallIds |-> NoLocals]

NextProcess ==
    \/ MainNext
    \/ ServeNext
    \/ Signal
    \/ \E c \in CallIds : Accept(c, LifeRequests)
    \/ \E c \in CallIds : HandleInject(c)
    \/ Health
    \/ Ready

\* The Go scheduler runs the main goroutine and the serve goroutine whenever
\* they can take a step, and the 2 s and 30 s timers fire.  A handler may
\* stay blocked on its client, and a signal need not come.
LifeSpec ==
    InitProcess /\ [][NextProcess]_vars /\ WF_vars(MainNext) /\ WF_vars(ServeNext)

-----------------------------------------------------------------------------
(* Properties *)

\* The admission request of call c, its response, its emitted patch
ReqOf(c) == calls[c].req.body.request
RespOf(c) == calls[c].out.response
PatchOf(c) == calls[c].out.response.patch

\* Call c is finished and its handler called processAdmissionRequest
Decided(c) == calls[c].pc = "done" /\ calls[c].out.invoked

\* An unconditional allow: no patch, no patch type, no denial result
PlainAllow(resp) ==
    /\ resp.allowed
    /\ ~resp.hasPatch /\ resp.patch = <<>>
    /\ ~resp.hasPatchType
    /\ ~resp.hasResult

\* The pod the engine of the process parses out of request req
ParsedPod(req) ==
    IF engine = "part_000" THEN Unmarshal(req.object)
    ELSE parsePodFromRequest(req)

\* The pod opts out of injection
OptsOut(pod) ==
    \/ pod.dnsPolicy = DNSNone
    \/ pod.hostNetwork /\ pod.dnsPolicy /= DNSClusterFirstWithHostNet
    \/ ~pod.dnsConfig.isNil

\* C1: a request on a Pod whose operation is neither Create nor Update is
\* allowed with no patch and no denial result, whatever its raw object is.
C1_OtherOperationsAllowed ==
    \A c \in CallIds :
        (/\ Decided(c)
         /\ isPodRequest(ReqOf(c))
         /\ ReqOf(c).operation \notin {Create, Update})
        => PlainAllow(RespOf(c))

\* C2: a request whose kind is not "Pod" or whose resource is not "pods" is
\* allowed with no patch, no patch type and no denial result, for every
\* operation and every raw object.
C2_NonPodAllowed ==
    \A c \in CallIds :
        (/\ Decided(c)
         /\ (ReqOf(c).kind /= "Pod" \/ ReqOf(c).resource /= "pods"))
        => PlainAllow(RespOf(c))

C2_Witness ==
    \E c \in CallIds :
        /\ Decided(c)
        /\ ReqOf(c).kind = "Pod" /\ ReqOf(c).resource = "deployments"
        /\ ReqOf(c).operation = Create
        /\ ReqOf(c).object = RawMalformed
        /\ RespOf(c).allowed

\* C3: on an Update of a Pod whose DNS policy or DNS config differs between
\* the old and the new object, the patch is present and the DNS policy value
\* and the DNS config value it carries are the old object's.
C3_UpdateCarriesOldDNS ==
    \A c \in CallIds :
        LET req == ReqOf(c)
            new == Unmarshal(req.object)
            old == Unmarshal(req.oldObject)
            patch == PatchOf(c)
        IN  (/\ Decided(c)
             /\ isPodRequest(req)
             /\ req.operation = Update
             /\ ~new.err /\ ~old.err
             /\ \/ new.pod.dnsPolicy /= old.pod.dnsPolicy
                \/ new.pod.dnsConfig /= old.pod.dnsConfig)
            => /\ RespOf(c).hasPatch
               /\ \A i \in 1..Len(patch) :
                    /\ patch[i].path = "/spec/dnsPolicy"
                        => patch[i].value = JSONString(old.pod.dnsPolicy)
                    /\ patch[i].path = "/spec/dnsConfig"
                        => patch[i].value = JSONObject(old.pod.dnsConfig)

\* C4: on a Create of a pod that opts out, the patch is the single
\* policy-replace operation and its value is the pod's original DNS policy.
C4_OptOutPatch ==
    \A c \in CallIds :
        LET req == ReqOf(c)
            p == ParsedPod(req)
        IN  (/\ Decided(c)
             /\ isPodRequest(req)
             /\ req.operation = Create
             /\ ~p.err
             /\ OptsOut(p.pod))
            => PatchOf(c) =
                 <<PatchOp("replace", "/spec/dnsPolicy",
                           JSONString(p.pod.dnsPolicy))>>

\* C5: on a Create of a bare pod (no DNS policy, no DNS config, not on the
\* host network) in request namespace ns, the patch is the replace of
\* /spec/dnsPolicy by "None" followed by the add of /spec/dnsConfig with
\* nameservers [node-local, cluster DNS], searches [ns.svc.cluster.local,
\* svc.cluster.local, cluster.local] and the configured options in order.
C5_BarePodPatch ==
    \A c \in CallIds :
        LET req == ReqOf(c)
            p == Unmarshal(req.object)
        IN  (/\ Decided(c)
             /\ isPodRequest(req)
             /\ req.operation = Create
             /\ ~p.err
             /\ p.pod.dnsPolicy = "" /\ p.pod.dnsConfig.isNil
             /\ ~p.pod.hostNetwork
             /\ config.ClusterDomain = "cluster.local")
            => PatchOf(c) =
                 <<PatchOp("replace", "/spec/dnsPolicy", JSONString("None")),
                   PatchOp("add", "/spec/dnsConfig",
                     JSONObject(PodDNSConfig(
                       <<config.NodeLocalDNSAddress, config.ClusterDNSAddress>>,
                       <<req.namespace \o ".svc.cluster.local",
                         "svc.cluster.local", "cluster.local">>,
                       config.DNSOptions)))>>

\* The request of call c passed every transport check of HandleInject
PassedTransport(c) ==
    /\ calls[c].req.method = MethodPost
    /\ calls[c].req.contentType = ContentTypeJSON
    /\ ~parseAdmissionReview(calls[c].req.body).err

\* C6: a Create or Update on a Pod whose raw object cannot be deserialized,
\* and an Update whose old object cannot be deserialized, yield HTTP 200
\* carrying an AdmissionResponse with allowed=false and result code 400.
C6_ParseFailuresDeniedInBand ==
    \A c \in CallIds :
        LET req == ReqOf(c) IN
        (/\ calls[c].pc = "done"
         /\ PassedTransport(c)
         /\ isPodRequest(req)
         /\ \/ req.operation \in {Create, Update} /\ Unmarshal(req.object).err
            \/ req.operation = Update /\ Unmarshal(req.oldObject).err)
        => /\ calls[c].out.status = StatusOK
           /\ calls[c].out.form = "review"
           /\ ~RespOf(c).allowed
           /\ RespOf(c).hasResult /\ RespOf(c).code = 400

\* C7: on /inject each transport-level failure (method not POST, content
\* type not application/json, body no review envelope, request null,
\* request identifier empty) is answered with a non-200 status and an
\* {"error":{code,message}} body whose code is the status, without calling
\* processAdmissionRequest; a POST with a wrong content type and a POST of
\* JSON with an unparseable body are answered 400.
C7_TransportFailures ==
    \A c \in CallIds :
        LET r == calls[c].req
            out == calls[c].out
        IN  calls[c].pc = "done" =>
            /\ (\/ r.method /= MethodPost
                \/ r.contentType /= ContentTypeJSON
                \/ r.body.form /= "json"
                \/ ~r.body.hasRequest
                \/ r.body.request.uid = "")
               => /\ out.status /= StatusOK
                  /\ out.form = "error" /\ out.code = out.status
                  /\ ~out.invoked
            /\ (r.method = MethodPost /\ r.contentType /= ContentTypeJSON)
               => out.status = StatusBadRequest
            /\ (/\ r.method = MethodPost /\ r.contentType = ContentTypeJSON
                /\ r.body.form = "unparseable")
               => out.status = StatusBadRequest

C7_Witness ==
    \E c \in CallIds :
        /\ calls[c].pc = "done"
        /\ calls[c].req.method = MethodPost
        /\ calls[c].req.contentType = ContentTypeJSON
        /\ calls[c].req.body.form = "json"
        /\ calls[c].req.body.hasRequest
        /\ calls[c].req.body.request.uid = ""
        /\ calls[c].out.status = StatusBadRequest

\* C8: every AdmissionResponse of processAdmissionRequest echoes the
\* request's UID; a denial carries no patch and no patch type and has a
\* result with code 400; a patch comes only with allowed=true and patch type
\* JSONPatch.
C8_ResponseShape ==
    \A c \in CallIds :
        LET resp == RespOf(c) IN
        Decided(c) =>
            /\ resp.uid = ReqOf(c).uid
            /\ ~resp.allowed =>
                   /\ ~resp.hasPatch /\ ~resp.hasPatchType
                   /\ resp.hasResult /\ resp.code = 400
            /\ resp.hasPatch =>
                   /\ resp.allowed
                   /\ resp.hasPatchType
                   /\ resp.patchType = PatchTypeJSONPatch

C8_Witness ==
    \E c \in CallIds :
        /\ Decided(c)
        /\ ReqOf(c).operation = Update
        /\ ~RespOf(c).allowed
        /\ RespOf(c).uid = "uid-1"

\* C9: injectDNSConfig is idempotent: a second run on the same working copy
\* leaves the pod as the first run left it.
C9_InjectIdempotent ==
    inj.runs >= 2 => inj.pod = inj.first

C9_Witness ==
    /\ inj.runs = 2
    /\ inj.first /= inj.orig
    /\ inj.pod.dnsPolicy = DNSNone
    /\ inj.pod.dnsConfig = PodDNSConfig(<<>>, <<>>, <<>>)

\* C10: once Shutdown has begun no new connection is accepted; a call is
\* abandoned only after a Shutdown has run into its deadline, and none is
\* left running in a stopped process; and the process eventually stops,
\* whether the drain completes or times out.
C10_GracefulShutdown ==
    /\ [][inShutdown =>
            \A c \in CallIds : calls[c].pc = "idle" => calls'[c].pc = "idle"]_vars
    /\ [](\A c \in CallIds : calls[c].pc = "abandoned" => drainTimedOut)
    /\ [](mainPc = "exited" => \A c \in CallIds : calls[c].pc /= "running")
    /\ (inShutdown ~> mainPc = "exited")

C10_Witness ==
    /\ mainPc = "exited"
    /\ inShutdown /\ cancelled
    /\ drainTimedOut
    /\ \E c \in CallIds : calls[c].pc = "abandoned"
    /\ \E c \in CallIds : calls[c].pc = "done"

\* The serve goroutine exists: ListenAndServeTLS has been called
ListenerStarted == servePc /= "none"

\* Some request has been taken by a handler
Served ==
    \/ \E c \in CallIds : calls[c].pc /= "idle"
    \/ probe /= NoProbe

\* C11: the listener is started, and a request is served, only after
\* LoadConfig returned a configuration and validateCertificates found a
\* loadable, non-empty pair; when either fails the process has exited with
\* code 1, Start (if it was called) returned an error, and neither the
\* listener was started nor a request served.
C11_NoServingBeforeStartup ==
    /\ (ListenerStarted \/ Served) => (configLoaded /\ certs = "valid")
    /\ certs \in {"unloadable", "empty"} =>
          /\ mainPc = "exited" /\ exitCode = 1
          /\ startErr = "error"
          /\ ~ListenerStarted /\ ~Served
    /\ (mainPc = "exited" /\ ~configLoaded) =>
          /\ exitCode = 1
          /\ certs = "unchecked"
          /\ ~ListenerStarted /\ ~Served

\* A request was served by a process that loaded its configuration and
\* validated its certificates.
C11_Witness ==
    /\ \E c \in CallIds : calls[c].pc = "done"
    /\ configLoaded /\ certs = "valid"

\* C12: every response /health has written is HTTP 200 with status
\* "healthy", and /health is answered whenever the process is serving;
\* a /ready response of HTTP 200 carries status "ready" and is written
\* only by a process whose LoadConfig has returned a configuration.
C12_Probes ==
    /\ probe.path = HealthPath =>
          (probe.status = StatusOK /\ probe.body = "healthy")
    /\ (Alive /\ servePc = "serving") => ENABLED Health
    /\ (probe.path = ReadyPath /\ probe.status = StatusOK) =>
          (probe.body = "ready" /\ configLoaded)

\* /ready has answered 200 on a process that loaded its configuration.
C12_Witness ==
    /\ probe.path = ReadyPath
    /\ probe.status = StatusOK
    /\ configLoaded

\* The working copy the engine of the process makes of the pod of request
\* req when no other call runs
WorkingCopyAlone(req) ==
    IF engine = "part_000"
    THEN workingCopy000(req, Unmarshal(req.object).pod,
                        Unmarshal(req.oldObject).pod, config)
    ELSE workingCopy001(parsePodFromRequest(req).pod, config)

\* C13: in every step of concurrently handled /inject calls the
\* process-wide configuration (nameserver addresses, search domains, DNS
\* options) keeps its value, a working copy that has been through the
\* injection is the one the call makes when handled alone, and the response
\* of a finished call is the response the same request gets when handled
\* alone.
C13_CallsIsolated ==
    [][/\ config' = config
       /\ \A c \in CallIds :
            /\ locals'[c].stage \in {"injected", "responded"} =>
                  locals'[c].podCopy = WorkingCopyAlone(ReqOf(c))'
            /\ calls'[c].pc = "done" =>
                  calls'[c].out =
                      HandleInjectResult(engine, config, calls'[c].req)
      ]_vars

\* Two calls with different requests were in flight together, both past
\* their parsing, and one of them has finished with a patch.
C13_Witness ==
    /\ calls[1].pc = "done" /\ calls[1].out.response.hasPatch
    /\ locals[1].stage = "responded"
    /\ calls[2].pc = "running" /\ locals[2].stage = "injected"
    /\ calls[1].req /= calls[2].req

\* C14: when the serve goroutine sent its bind/serve error before Start
\* returned, Start returns an error and the server is never Serving; and
\* Start returns nil only through the timer case of its select, with no
\* error sent in the window.
C14_StartupWindow ==
    /\ (errInWindow /\ startErr /= "pending") => startErr = "error"
    /\ errInWindow => servePc /= "serving"
    /\ startErr = "nil" => (startVia = "timer" /\ ~errInWindow)

\* C18: in every step in which Server.Start returns nil the server is
\* Serving (the listener accepts connections, no serve error was sent,
\* Shutdown has not been called), whether or not ctx was cancelled in the
\* startup window; so main logs "started" for a serving server only.
C18_StartNilMeansServing ==
    [][(startErr = "pending" /\ startErr' = "nil") =>
          /\ servePc' = "serving"
          /\ errChan' = 0 /\ ~errInWindow'
          /\ ~inShutdown'
      ]_vars

\* Call c was answered with a patch
Patched(c) == Decided(c) /\ RespOf(c).allowed /\ RespOf(c).hasPatch

\* C15: every emitted patch has one or two operations: the first is a
\* replace at /spec/dnsPolicy; a second one is there exactly when the DNS
\* config of the working copy is not null, and it is an add at
\* /spec/dnsConfig whose value is that DNS config; no operation has another
\* path, and the replace comes before the add.
C15_PatchShape ==
    \A c \in CallIds : Patched(c) =>
        LET patch == PatchOf(c)
            modified == WorkingCopyAlone(ReqOf(c))
        IN  /\ Len(patch) \in {1, 2}
            /\ patch[1].op = "replace"
            /\ patch[1].path = "/spec/dnsPolicy"
            /\ Len(patch) = 2 <=> ~modified.dnsConfig.isNil
            /\ Len(patch) = 2 =>
                  /\ patch[2].op = "add"
                  /\ patch[2].path = "/spec/dnsConfig"
                  /\ patch[2].value = JSONObject(modified.dnsConfig)
            /\ \A i \in 1..Len(patch) :
                  patch[i].path \in {"/spec/dnsPolicy", "/spec/dnsConfig"}

\* A patch of two operations was emitted for an injected pod.
C15_Witness ==
    /\ Patched(1)
    /\ Len(PatchOf(1)) = 2
    /\ PatchOf(1)[2].value.obj.nameservers /= <<>>

\* injectDNSConfig changes pod o: its three skip conditions are all false
Eligible(o) ==
    /\ o.dnsConfig.isNil
    /\ o.dnsPolicy /= DNSNone
    /\ ~o.hostNetwork \/ o.dnsPolicy = DNSClusterFirstWithHostNet

\* C16: the first run of injectDNSConfig changes the pod exactly when its
\* DNS config is null, its policy is not None, and it is not host-network
\* or has policy ClusterFirstWithHostNet; a changed pod has policy None and
\* a DNS config whose nameservers, searches and options are the lists of the
\* given spec, element for element, and its other fields are as before; a
\* skipped pod is unchanged.
C16_InjectExactly ==
    inj.runs >= 1 =>
        LET o == inj.orig
            r == inj.first
            d == inj.spec
        IN  /\ (r /= o) <=> Eligible(o)
            /\ Eligible(o) =>
                  /\ r.dnsPolicy = DNSNone
                  /\ ~r.dnsConfig.isNil
                  /\ Len(r.dnsConfig.nameservers) = Len(d.Nameservers)
                  /\ \A i \in 1..Len(d.Nameservers) :
                        r.dnsConfig.nameservers[i] = d.Nameservers[i]
                  /\ Len(r.dnsConfig.searches) = Len(d.Searches)
                  /\ \A i \in 1..Len(d.Searches) :
                        r.dnsConfig.searches[i] = d.Searches[i]
                  /\ Len(r.dnsConfig.options) = Len(d.Options)
                  /\ \A i \in 1..Len(d.Options) :
                        r.dnsConfig.options[i] = d.Options[i]
                  /\ r.namespace = o.namespace
                  /\ r.hostNetwork = o.hostNetwork
            /\ ~Eligible(o) => r = o

\* A host-network pod with policy ClusterFirstWithHostNet was injected with
\* a non-empty spec.
C16_Witness ==
    /\ inj.runs = 1
    /\ inj.orig.hostNetwork
    /\ inj.orig.dnsPolicy = DNSClusterFirstWithHostNet
    /\ inj.first.dnsPolicy = DNSNone
    /\ Len(inj.first.dnsConfig.nameservers) = 2
    /\ Len(inj.first.dnsConfig.options) = 2

\* One JSON Patch operation (RFC 6902) applied to a pod document by the
\* caller: a replace needs its target to exist; an add of an object member
\* sets it, whether it existed or not.
ApplyOp(doc, o) ==
    IF o.op = "replace" /\ o.path = "/spec/dnsPolicy"
    THEN IF doc.hasDNSPolicy /\ o.value.type = "string"
         THEN [ok |-> TRUE, doc |-> [doc EXCEPT !.dnsPolicy = o.value.str]]
         ELSE [ok |-> FALSE, doc |-> doc]
    ELSE IF o.op = "add" /\ o.path = "/spec/dnsConfig"
    THEN IF o.value.type = "object"
         THEN [ok |-> TRUE, doc |-> [doc EXCEPT !.dnsConfig = o.value.obj]]
         ELSE [ok |-> FALSE, doc |-> doc]
    ELSE [ok |-> FALSE, doc |-> doc]

\* The operations of a patch applied in order; the first failure ends it.
RECURSIVE ApplyPatch(_, _)
ApplyPatch(doc, patch) ==
    IF patch = <<>> THEN [ok |-> TRUE, doc |-> doc]
    ELSE LET r == ApplyOp(doc, Head(patch)) IN
         IF r.ok THEN ApplyPatch(r.doc, Tail(patch)) ELSE r

\* C17: for every Create or Update answered with a patch, the operations
\* applied in order to the original pod all succeed, and the result has the
\* DNS policy and the DNS config of the engine's working copy and every
\* other field of the original.
C17_PatchRoundTrip ==
    \A c \in CallIds :
        (Patched(c) /\ ReqOf(c).operation \in {Create, Update}) =>
            LET original == ReqOf(c).object.doc
                modified == WorkingCopyAlone(ReqOf(c))
                r == ApplyPatch(original, PatchOf(c))
            IN  /\ r.ok
                /\ r.doc.dnsPolicy = modified.dnsPolicy
                /\ r.doc.dnsConfig = modified.dnsConfig
                /\ r.doc.namespace = original.namespace
                /\ r.doc.hostNetwork = original.hostNetwork

====
